---- MODULE Spec2Model ----
(***************************************************************************)
(* Student Record Service (src/DB2.js): an express application with four   *)
(* handlers over one mongoose model, Student, backed by one MongoDB        *)
(* collection.                                                             *)
(*                                                                         *)
(* A string is modelled as a sequence of one-character strings, so that    *)
(* the schema's setters (trim, lowercase), its length validators and its   *)
(* email pattern are computed character by character.  A request body is   *)
(* a record over the paths _id, name, age, course, email, grade; a path    *)
(* holds Absent, a JSON string Str(s) or a JSON number Num(n).  The        *)
(* schema's enrollmentDate and the two timestamps are not modelled: no     *)
(* handler branches on them.  Bodies made of update operators ($inc,       *)
(* $rename, ...) instead of paths are outside the model.                   *)
(***************************************************************************)
EXTENDS Integers, Sequences, FiniteSets, TLC

(***************************************************************************)
(* JSON values of a request body.                                          *)
(***************************************************************************)
Absent == [t |-> "absent"]
Str(s) == [t |-> "str", v |-> s]
Num(n) == [t |-> "num", v |-> n]

(***************************************************************************)
(* Characters.                                                             *)
(***************************************************************************)
UpperLetters ==
    {"A","B","C","D","E","F","G","H","I","J","K","L","M",
     "N","O","P","Q","R","S","T","U","V","W","X","Y","Z"}

LowerLetters ==
    {"a","b","c","d","e","f","g","h","i","j","k","l","m",
     "n","o","p","q","r","s","t","u","v","w","x","y","z"}

Digits == {"0","1","2","3","4","5","6","7","8","9"}

\* the class \w of the email pattern
WordChar(c) == c \in UpperLetters \cup LowerLetters \cup Digits \cup {"_"}

LowerChar(c) ==
    CASE c = "A" -> "a" [] c = "B" -> "b" [] c = "C" -> "c" [] c = "D" -> "d"
      [] c = "E" -> "e" [] c = "F" -> "f" [] c = "G" -> "g" [] c = "H" -> "h"
      [] c = "I" -> "i" [] c = "J" -> "j" [] c = "K" -> "k" [] c = "L" -> "l"
      [] c = "M" -> "m" [] c = "N" -> "n" [] c = "O" -> "o" [] c = "P" -> "p"
      [] c = "Q" -> "q" [] c = "R" -> "r" [] c = "S" -> "s" [] c = "T" -> "t"
      [] c = "U" -> "u" [] c = "V" -> "v" [] c = "W" -> "w" [] c = "X" -> "x"
      [] c = "Y" -> "y" [] c = "Z" -> "z" [] OTHER -> c

DigitValue(c) ==
    CASE c = "0" -> 0 [] c = "1" -> 1 [] c = "2" -> 2 [] c = "3" -> 3
      [] c = "4" -> 4 [] c = "5" -> 5 [] c = "6" -> 6 [] c = "7" -> 7
      [] c = "8" -> 8 [] c = "9" -> 9

(***************************************************************************)
(* String operations used by the schema.                                   *)
(***************************************************************************)
\* String.prototype.toLowerCase
toLowerCase(s) == [i \in 1..Len(s) |-> LowerChar(s[i])]

RECURSIVE trimStart(_)
trimStart(s) ==
    IF s # <<>> /\ Head(s) = " " THEN trimStart(Tail(s)) ELSE s

RECURSIVE trimEnd(_)
trimEnd(s) ==
    IF s # <<>> /\ s[Len(s)] = " " THEN trimEnd(SubSeq(s, 1, Len(s) - 1)) ELSE s

\* String.prototype.trim
trim(s) == trimEnd(trimStart(s))

\* a run of decimal digits read as a number
RECURSIVE DecimalValue(_)
DecimalValue(s) ==
    IF s = <<>> THEN 0
    ELSE 10 * DecimalValue(SubSeq(s, 1, Len(s) - 1)) + DigitValue(s[Len(s)])

IsDecimal(s) == s # <<>> /\ \A i \in 1..Len(s) : s[i] \in Digits

(***************************************************************************)
(* The email pattern                                                       *)
(*   /^\w+([.-]?\w+)*@\w+([.-]?\w+)*(\.\w{2,3})+$/                        *)
(* matched part by part.                                                   *)
(***************************************************************************)
AllWord(s) == \A i \in 1..Len(s) : WordChar(s[i])

\* \w+([.-]?\w+)* : word characters with single '.' or '-' strictly inside
MatchWords(s) ==
    /\ s # <<>>
    /\ WordChar(s[1])
    /\ WordChar(s[Len(s)])
    /\ \A i \in 1..Len(s) : WordChar(s[i]) \/ s[i] \in {".", "-"}
    /\ \A i \in 1..(Len(s) - 1) : WordChar(s[i]) \/ WordChar(s[i + 1])

\* (\.\w{2,3})+
RECURSIVE MatchTlds(_)
MatchTlds(s) ==
    /\ Len(s) >= 3
    /\ s[1] = "."
    /\ \E n \in {2, 3} :
          /\ Len(s) >= n + 1
          /\ AllWord(SubSeq(s, 2, n + 1))
          /\ \/ Len(s) = n + 1
             \/ MatchTlds(SubSeq(s, n + 2, Len(s)))

\* \w+([.-]?\w+)*(\.\w{2,3})+
MatchDomain(s) ==
    \E k \in 1..Len(s) :
        /\ MatchWords(SubSeq(s, 1, k))
        /\ MatchTlds(SubSeq(s, k + 1, Len(s)))

MatchEmail(s) ==
    \E k \in 1..Len(s) :
        /\ s[k] = "@"
        /\ MatchWords(SubSeq(s, 1, k - 1))
        /\ MatchDomain(SubSeq(s, k + 1, Len(s)))

(***************************************************************************)
(* studentSchema: the limits, the enumerations and the messages.           *)
(***************************************************************************)
MinNameLength == 2
MaxNameLength == 50
MinAge == 16
MaxAge == 100

CourseValues ==
    { <<"C","o","m","p","u","t","e","r"," ","S","c","i","e","n","c","e">>,
      <<"M","a","t","h","e","m","a","t","i","c","s">>,
      <<"P","h","y","s","i","c","s">>,
      <<"C","h","e","m","i","s","t","r","y">>,
      <<"B","i","o","l","o","g","y">>,
      <<"E","n","g","i","n","e","e","r","i","n","g">>,
      <<"B","u","s","i","n","e","s","s">>,
      <<"A","r","t","s">> }

GradeValues == { <<"A">>, <<"B">>, <<"C">>, <<"D">>, <<"F">> }

GradeDefault == <<"C">>

\* one validator (or cast) failure of one path; value is the {VALUE} of the
\* message template, <<>> when the message has none
Msg(path, text, value) == [path |-> path, text |-> text, value |-> value]

(***************************************************************************)
(* Casting a body value to the type of its path.  A failure is a           *)
(* CastError.                                                              *)
(***************************************************************************)
CastFailed == [ok |-> FALSE]
Cast(v) == [ok |-> TRUE, v |-> v]

\* type: Number.  A number is kept, a string of digits is read as a number,
\* any other string cannot be cast.
castNumber(raw) ==
    IF raw.t = "num" THEN Cast(raw.v)
    ELSE IF raw.t = "str" /\ IsDecimal(raw.v) THEN Cast(DecimalValue(raw.v))
    ELSE CastFailed

\* ObjectId: a path parameter or an _id is Oid(n), the n-th identifier, or a
\* string that is not the 24 hexadecimal digits of an identifier.
Oid(n) == [t |-> "oid", v |-> n]

castObjectId(raw) == IF raw.t = "oid" THEN Cast(raw.v) ELSE CastFailed

(***************************************************************************)
(* The setters of the string paths (applied on create and on update).      *)
(***************************************************************************)
\* name without trim: true
setNameAsGiven(s) == s

\* name: trim: true
setName(s) == trim(s)

\* course: trim: true
setCourse(s) == trim(s)

\* email without lowercase: true
setEmailAsGiven(s) == s

\* email: lowercase: true
setEmail(s) == toLowerCase(s)

(***************************************************************************)
(* The validators of each path, run in schema order on the value after     *)
(* cast and setters; the first that fails gives the path's one error.      *)
(***************************************************************************)
nameValidators(v) ==
    IF v = <<>> THEN << Msg("name", "Student name is required", <<>>) >>
    ELSE IF Len(v) < MinNameLength
    THEN << Msg("name", "Name must be at least 2 characters long", <<>>) >>
    ELSE IF Len(v) > MaxNameLength
    THEN << Msg("name", "Name cannot exceed 50 characters", <<>>) >>
    ELSE <<>>

ageValidators(n) ==
    IF n < MinAge THEN << Msg("age", "Age must be at least 16", <<>>) >>
    ELSE IF n > MaxAge THEN << Msg("age", "Age cannot exceed 100", <<>>) >>
    ELSE <<>>

courseValidators(v) ==
    IF v = <<>> THEN << Msg("course", "Course is required", <<>>) >>
    ELSE IF v \notin CourseValues
    THEN << Msg("course", "{VALUE} is not a valid course", v) >>
    ELSE <<>>

emailValidators(v) ==
    IF v = <<>> THEN << Msg("email", "Email is required", <<>>) >>
    ELSE IF ~MatchEmail(v)
    THEN << Msg("email", "Please enter a valid email", <<>>) >>
    ELSE <<>>

gradeValidators(v) ==
    IF v \notin GradeValues
    THEN << Msg("grade", "{VALUE} is not a valid enum value for path grade", v) >>
    ELSE <<>>

(***************************************************************************)
(* Student.create(body): new Student(body) casts each supplied path,       *)
(* applies its setters and the defaults; validate() then collects one      *)
(* error per failing path, in schema order.  An age that cannot be cast    *)
(* is the age path's error.                                                *)
(***************************************************************************)
nameErrors(body) ==
    IF body.name = Absent THEN << Msg("name", "Student name is required", <<>>) >>
    ELSE nameValidators(setName(body.name.v))

ageErrors(body) ==
    IF body.age = Absent THEN << Msg("age", "Student age is required", <<>>) >>
    ELSE IF ~castNumber(body.age).ok
    THEN << Msg("age", "Cast to Number failed for value {VALUE}", body.age.v) >>
    ELSE ageValidators(castNumber(body.age).v)

courseErrors(body) ==
    IF body.course = Absent THEN << Msg("course", "Course is required", <<>>) >>
    ELSE courseValidators(setCourse(body.course.v))

emailErrors(body) ==
    IF body.email = Absent THEN << Msg("email", "Email is required", <<>>) >>
    ELSE emailValidators(setEmail(body.email.v))

\* grade is not required: its enum is checked on the supplied value
gradeErrors(body) ==
    IF body.grade = Absent THEN <<>> ELSE gradeValidators(body.grade.v)

\* a validation that stops at the first failing path
validateDocumentFirst(body) ==
    LET all == nameErrors(body) \o ageErrors(body) \o courseErrors(body)
                  \o emailErrors(body) \o gradeErrors(body)
    IN  IF all = <<>> THEN <<>> ELSE << Head(all) >>

\* error.errors of the ValidationError, as Object.values lists it
validateDocument(body) ==
    nameErrors(body) \o ageErrors(body) \o courseErrors(body)
        \o emailErrors(body) \o gradeErrors(body)

\* the document new Student(body) holds when validateDocument(body) = <<>>;
\* id is body._id when the body supplies one, else a new ObjectId
newStudent(body, id) ==
    [ id     |-> id,
      name   |-> setName(body.name.v),
      age    |-> castNumber(body.age).v,
      course |-> setCourse(body.course.v),
      email  |-> setEmail(body.email.v),
      grade  |-> IF body.grade = Absent THEN GradeDefault ELSE body.grade.v ]

(***************************************************************************)
(* findByIdAndUpdate(id, body, {new: true, runValidators: true}): the      *)
(* body's paths become one $set.  Mongoose casts the $set (a value that    *)
(* cannot be cast throws a CastError), applies the setters, and runs the   *)
(* validators of the supplied paths only, all before the command is sent.  *)
(***************************************************************************)
updateCastOk(body) == body.age = Absent \/ castNumber(body.age).ok

\* the $set after cast and setters
castUpdate(body) ==
    [ name   |-> IF body.name = Absent THEN Absent ELSE Str(setName(body.name.v)),
      age    |-> IF body.age = Absent THEN Absent ELSE Num(castNumber(body.age).v),
      course |-> IF body.course = Absent THEN Absent
                 ELSE Str(setCourse(body.course.v)),
      email  |-> IF body.email = Absent THEN Absent
                 ELSE Str(setEmail(body.email.v)),
      grade  |-> body.grade ]

\* runValidators left out
updateValidatorsOff(set) == <<>>

\* runValidators: true
updateValidators(set) ==
    (IF set.name = Absent THEN <<>> ELSE nameValidators(set.name.v))
    \o (IF set.age = Absent THEN <<>> ELSE ageValidators(set.age.v))
    \o (IF set.course = Absent THEN <<>> ELSE courseValidators(set.course.v))
    \o (IF set.email = Absent THEN <<>> ELSE emailValidators(set.email.v))
    \o (IF set.grade = Absent THEN <<>> ELSE gradeValidators(set.grade.v))

\* the stored document after the $set
applySet(doc, set) ==
    [ id     |-> doc.id,
      name   |-> IF set.name = Absent THEN doc.name ELSE set.name.v,
      age    |-> IF set.age = Absent THEN doc.age ELSE set.age.v,
      course |-> IF set.course = Absent THEN doc.course ELSE set.course.v,
      email  |-> IF set.email = Absent THEN doc.email ELSE set.email.v,
      grade  |-> IF set.grade = Absent THEN doc.grade ELSE set.grade.v ]

(***************************************************************************)
(* The collection: a set of documents with the unique index on _id and     *)
(* the unique index the schema declares on email.  An index compares the   *)
(* stored values as they are.                                              *)
(***************************************************************************)
findById(coll, id) == { d \in coll : d.id = id }

\* E11000 on insert without the unique index on email
insertDuplicateKeyIdOnly(coll, doc) == \E d \in coll : d.id = doc.id

\* E11000 on insert
insertDuplicateKey(coll, doc) ==
    \E d \in coll : d.id = doc.id \/ d.email = doc.email

\* E11000 on update: another document holds the email
updateDuplicateKey(coll, doc) ==
    \E d \in coll : d.id # doc.id /\ d.email = doc.email

(***************************************************************************)
(* The response envelopes the handlers send.  data is <<>> or one          *)
(* document.                                                               *)
(***************************************************************************)
Response(status, message, data, errors) ==
    [status |-> status, message |-> message, data |-> data, errors |-> errors]

InvalidStudentId == Response(400, "Invalid student ID", <<>>, <<>>)
StudentNotFound == Response(404, "Student not found", <<>>, <<>>)
EmailAlreadyExists == Response(400, "Email already exists", <<>>, <<>>)
ServerError == Response(500, "Server Error", <<>>, <<>>)
ValidationFailed(errors) == Response(400, "Validation Error", <<>>, errors)

(***************************************************************************)
(* Bounds.                                                                 *)
(***************************************************************************)
\* identifiers the ObjectId generator hands out: 1..MaxId
MaxId == 2
\* requests that may wait for the store at once in SpecConcurrent
MaxInFlight == 2

(***************************************************************************)
(* State.                                                                  *)
(***************************************************************************)
VARIABLES
    students,   \* the documents of the students collection
    nextId,     \* the next ObjectId the driver generates
    pending,    \* requests between mongoose's local checks and their command
    last,       \* the last response sent, with the body it answers
    deleted     \* history: the identifiers a delete has answered 200 for

vars == <<students, nextId, pending, last, deleted>>

Answer(op, body, resp) ==
    [op |-> op, body |-> body, status |-> resp.status, message |-> resp.message,
     data |-> resp.data, errors |-> resp.errors]

Init ==
    /\ students = {}
    /\ nextId = 1
    /\ pending = {}
    /\ last = Answer("none", Absent, Response(0, "", <<>>, <<>>))
    /\ deleted = {}

(***************************************************************************)
(* createStudent, up to the insert: Student.create builds and validates    *)
(* the document; a ValidationError is answered at once.  The identifier of *)
(* a rejected document is never seen, so only an accepted document draws   *)
(* from the generator.  cap is the number of requests that may wait for    *)
(* the store at once.                                                      *)
(***************************************************************************)
createReceive(cap, body) ==
    LET errors == validateDocument(body) IN
    IF errors # <<>>
    THEN /\ last' = Answer("create", body, ValidationFailed(errors))
         /\ UNCHANGED <<students, nextId, pending, deleted>>
    ELSE /\ Cardinality(pending) < cap
         /\ body.id = Absent => nextId <= MaxId
         /\ LET id == IF body.id = Absent THEN nextId ELSE body.id.v IN
            pending' = pending \cup
                { [op |-> "create", id |-> id, body |-> body,
                   doc |-> newStudent(body, id)] }
         /\ nextId' = IF body.id = Absent THEN nextId + 1 ELSE nextId
         /\ UNCHANGED <<students, last, deleted>>

\* createStudent, the insert and the response
createCommit(p) ==
    /\ p \in pending
    /\ p.op = "create"
    /\ pending' = pending \ {p}
    /\ IF insertDuplicateKey(students, p.doc)
       THEN /\ last' = Answer("create", p.body, EmailAlreadyExists)
            /\ UNCHANGED students
       ELSE /\ students' = students \cup {p.doc}
            /\ last' = Answer("create", p.body,
                    Response(201, "Student created successfully", <<p.doc>>, <<>>))
    /\ UNCHANGED <<nextId, deleted>>

(***************************************************************************)
(* getStudentById                                                          *)
(***************************************************************************)
\* getStudentById without the CastError branch of its catch
getResponseNoCastCheck(coll, rawId) ==
    IF ~castObjectId(rawId).ok THEN ServerError
    ELSE IF findById(coll, castObjectId(rawId).v) = {} THEN StudentNotFound
    ELSE Response(200, "",
            << CHOOSE d \in findById(coll, castObjectId(rawId).v) : TRUE >>, <<>>)

getResponse(coll, rawId) ==
    IF ~castObjectId(rawId).ok THEN InvalidStudentId
    ELSE IF findById(coll, castObjectId(rawId).v) = {} THEN StudentNotFound
    ELSE Response(200, "",
            << CHOOSE d \in findById(coll, castObjectId(rawId).v) : TRUE >>, <<>>)

getStudentById(rawId) ==
    /\ last' = Answer("get", Absent, getResponse(students, rawId))
    /\ UNCHANGED <<students, nextId, pending, deleted>>

(***************************************************************************)
(* updateStudent, up to the command: the identifier and the $set are cast  *)
(* and the update validators run; a CastError or a ValidationError is      *)
(* answered at once.                                                       *)
(***************************************************************************)
updateReceive(cap, rawId, body) ==
    IF ~castObjectId(rawId).ok \/ ~updateCastOk(body)
    THEN /\ last' = Answer("update", body, InvalidStudentId)
         /\ UNCHANGED <<students, nextId, pending, deleted>>
    ELSE IF updateValidators(castUpdate(body)) # <<>>
    THEN /\ last' = Answer("update", body,
                        ValidationFailed(updateValidators(castUpdate(body))))
         /\ UNCHANGED <<students, nextId, pending, deleted>>
    ELSE /\ Cardinality(pending) < cap
         /\ pending' = pending \cup
                { [op |-> "update", id |-> castObjectId(rawId).v, body |-> body,
                   doc |-> castUpdate(body)] }
         /\ UNCHANGED <<students, nextId, last, deleted>>

\* updateStudent without the test of a null result
updateCommitNoCheck(p) ==
    /\ p \in pending
    /\ p.op = "update"
    /\ pending' = pending \ {p}
    /\ IF findById(students, p.id) = {}
       THEN /\ last' = Answer("update", p.body,
                    Response(200, "Student updated successfully", <<>>, <<>>))
            /\ UNCHANGED students
       ELSE LET old == CHOOSE d \in findById(students, p.id) : TRUE
                new == applySet(old, p.doc)
            IN  IF updateDuplicateKey(students, new)
                THEN /\ last' = Answer("update", p.body, ServerError)
                     /\ UNCHANGED students
                ELSE /\ students' = (students \ {old}) \cup {new}
                     /\ last' = Answer("update", p.body,
                            Response(200, "Student updated successfully", <<new>>, <<>>))
    /\ UNCHANGED <<nextId, deleted>>

\* updateStudent, the findOneAndUpdate command and the response
updateCommit(p) ==
    /\ p \in pending
    /\ p.op = "update"
    /\ pending' = pending \ {p}
    /\ IF findById(students, p.id) = {}
       THEN /\ last' = Answer("update", p.body, StudentNotFound)
            /\ UNCHANGED students
       ELSE LET old == CHOOSE d \in findById(students, p.id) : TRUE
                new == applySet(old, p.doc)
            IN  IF updateDuplicateKey(students, new)
                THEN /\ last' = Answer("update", p.body, ServerError)
                     /\ UNCHANGED students
                ELSE /\ students' = (students \ {old}) \cup {new}
                     /\ last' = Answer("update", p.body,
                            Response(200, "Student updated successfully", <<new>>, <<>>))
    /\ UNCHANGED <<nextId, deleted>>

(***************************************************************************)
(* deleteStudent                                                           *)
(***************************************************************************)
deleteStudent(rawId) ==
    /\ IF ~castObjectId(rawId).ok
       THEN /\ last' = Answer("delete", Absent, InvalidStudentId)
            /\ UNCHANGED <<students, deleted>>
       ELSE IF findById(students, castObjectId(rawId).v) = {}
       THEN /\ last' = Answer("delete", Absent, StudentNotFound)
            /\ UNCHANGED <<students, deleted>>
       ELSE /\ students' = students \ findById(students, castObjectId(rawId).v)
            /\ deleted' = deleted \cup { castObjectId(rawId).v }
            /\ last' = Answer("delete", Absent,
                    Response(200, "Student deleted successfully", <<>>, <<>>))
    /\ UNCHANGED <<nextId, pending>>

(***************************************************************************)
(* The requests the clients send.                                          *)
(***************************************************************************)
Body(id, name, age, course, email, grade) ==
    [id |-> id, name |-> name, age |-> age, course |-> course,
     email |-> email, grade |-> grade]

Jo == <<" ", "J", "o", " ">>
Arts == <<" ", "A", "r", "t", "s", " ">>
Law == <<"L", "a", "w">>
EmailA == <<"A", "@", "b", ".", "c", "o">>
EmailALower == <<"a", "@", "b", ".", "c", "o">>
EmailC == <<"C", "@", "d", ".", "c", "o">>

\* a string that is no ObjectId
NotAnId == Str(<<"x">>)

PathIds == { Oid(n) : n \in 1..MaxId } \cup { NotAnId }

\* the identifiers a client has been given so far, which it may send back
\* as the _id of a create body
Issued == 1..(nextId - 1)

\* create bodies: a valid student, the same with its email in lower case,
\* a second valid student (age as a string, a grade) with or without an
\* _id, and a body that violates two paths
CreateBodies ==
    { Body(Absent, Str(Jo), Num(20), Str(Arts), Str(e), Absent) :
          e \in { EmailA, EmailALower } }
    \cup { Body(i, Str(Jo), Str(<<"2", "1">>), Str(Arts), Str(EmailC), Str(<<"A">>)) :
          i \in { Absent } \cup { Oid(n) : n \in Issued } }
    \cup { Body(Absent, Str(Jo), Num(10), Str(Law), Str(EmailA), Absent) }

\* update bodies: a new email (each of the two), a course outside the
\* enumeration, an age that cannot be cast
UpdateBodies ==
    { Body(Absent, Absent, Absent, Absent, Str(e), Absent) : e \in { EmailA, EmailC } }
    \cup { Body(Absent, Absent, Absent, Str(Law), Absent, Absent),
           Body(Absent, Absent, Str(<<"a", "b", "c">>), Absent, Absent, Absent) }

(***************************************************************************)
(* Spec: the service answering one request at a time, in any order.        *)
(***************************************************************************)
Next ==
    \/ \E body \in CreateBodies : createReceive(1, body)
    \/ \E p \in pending : createCommit(p)
    \/ \E rawId \in PathIds : getStudentById(rawId)
    \/ \E rawId \in PathIds, body \in UpdateBodies : updateReceive(1, rawId, body)
    \/ \E p \in pending : updateCommit(p)
    \/ \E rawId \in PathIds : deleteStudent(rawId)

Spec == Init /\ [][Next]_vars

(***************************************************************************)
(* SpecConcurrent: up to MaxInFlight create and update requests wait for   *)
(* the store while others are received, committed or deleted: every        *)
(* interleaving of the handlers' store commands.                           *)
(***************************************************************************)
ConcCreateBodies ==
    { Body(Absent, Str(Jo), Num(20), Str(Arts), Str(e), Absent) :
          e \in { EmailA, EmailALower } }

ConcUpdateBodies ==
    { Body(Absent, Absent, Absent, Absent, Str(e), Absent) : e \in { EmailA, EmailC } }

NextConcurrent ==
    \/ \E body \in ConcCreateBodies : createReceive(MaxInFlight, body)
    \/ \E p \in pending : createCommit(p)
    \/ \E n \in 1..MaxId, body \in ConcUpdateBodies :
            updateReceive(MaxInFlight, Oid(n), body)
    \/ \E p \in pending : updateCommit(p)
    \/ \E n \in 1..MaxId : deleteStudent(Oid(n))

SpecConcurrent == Init /\ [][NextConcurrent]_vars

(***************************************************************************)
(* SpecValidation: create and update requests whose paths range over       *)
(* missing, boundary and out-of-range values, answered one at a time.      *)
(* Student.create validates a body before the store is touched, so the     *)
(* create bodies are sent to the idle, empty store; the update bodies are  *)
(* sent once a student is stored.                                          *)
(***************************************************************************)
LongName(n) == [i \in 1..n |-> "a"]

OneLetter == <<" ", "J", " ">>
LowerArts == <<"a", "r", "t", "s">>
NoTld == <<"a", "@", "b">>

ValidationNames ==
    { Absent, Str(OneLetter), Str(LongName(MaxNameLength + 1)), Str(Jo),
      Str(LongName(MaxNameLength)) }

ValidationAges ==
    { Absent, Num(MinAge - 1), Num(MaxAge + 1), Str(<<"a", "b", "c">>),
      Num(MinAge), Num(MaxAge) }

ValidationCourses == { Str(LowerArts), Str(Arts) }

ValidationEmails == { Absent, Str(NoTld), Str(EmailA) }

ValidationGrades == { Absent, Str(<<"E">>) }

ValidationCreateBodies ==
    { Body(Absent, n, a, c, e, g) :
        n \in ValidationNames, a \in ValidationAges, c \in ValidationCourses,
        e \in ValidationEmails, g \in ValidationGrades }

\* update bodies that set one path, and one that violates two
ValidationUpdateBodies ==
    { Body(Absent, n, Absent, Absent, Absent, Absent) :
        n \in ValidationNames \ { Absent, Str(Jo) } }
    \cup { Body(Absent, Absent, a, Absent, Absent, Absent) :
        a \in ValidationAges \ { Absent, Num(MinAge) } }
    \cup { Body(Absent, Absent, Absent, Str(LowerArts), Absent, Absent),
           Body(Absent, Absent, Absent, Absent, Str(NoTld), Absent),
           Body(Absent, Absent, Absent, Absent, Absent, Str(<<"E">>)),
           Body(Absent, Absent, Num(MaxAge + 1), Str(LowerArts), Absent, Absent) }

NextValidation ==
    \/ /\ students = {}
       /\ pending = {}
       /\ \E body \in ValidationCreateBodies : createReceive(1, body)
    \/ \E p \in pending : createCommit(p)
    \/ /\ students # {}
       /\ \E rawId \in PathIds, body \in ValidationUpdateBodies :
            updateReceive(1, rawId, body)
    \/ \E p \in pending : updateCommit(p)

SpecValidation == Init /\ [][NextValidation]_vars

(***************************************************************************)
(* Properties.  What a request violates is stated here on the raw body,    *)
(* apart from the handlers.                                                *)
(***************************************************************************)
WellFormed(rawId) == rawId.t = "oid"

Stored(n) == \E s \in students : s.id = n

NameViolated(raw) == Len(trim(raw.v)) < 2 \/ Len(trim(raw.v)) > 50

AgeViolated(raw) ==
    \/ ~castNumber(raw).ok
    \/ castNumber(raw).v < 16
    \/ castNumber(raw).v > 100

CourseViolated(raw) == trim(raw.v) \notin CourseValues

EmailViolated(raw) == ~MatchEmail(toLowerCase(raw.v))

GradeViolated(raw) == raw.v \notin GradeValues

\* the paths of a create body that are missing though required, or invalid
CreateViolations(body) ==
    { f \in {"name", "age", "course", "email", "grade"} :
        \/ f = "name" /\ (body.name = Absent \/ NameViolated(body.name))
        \/ f = "age" /\ (body.age = Absent \/ AgeViolated(body.age))
        \/ f = "course" /\ (body.course = Absent \/ CourseViolated(body.course))
        \/ f = "email" /\ (body.email = Absent \/ EmailViolated(body.email))
        \/ f = "grade" /\ body.grade # Absent /\ GradeViolated(body.grade) }

\* the supplied paths of an update body that are invalid
UpdateViolations(body) ==
    { f \in {"name", "age", "course", "email", "grade"} :
        \/ f = "name" /\ body.name # Absent /\ NameViolated(body.name)
        \/ f = "age" /\ body.age # Absent /\ AgeViolated(body.age)
        \/ f = "course" /\ body.course # Absent /\ CourseViolated(body.course)
        \/ f = "email" /\ body.email # Absent /\ EmailViolated(body.email)
        \/ f = "grade" /\ body.grade # Absent /\ GradeViolated(body.grade) }

ErrorPaths(errors) == { errors[i].path : i \in 1..Len(errors) }

C2_DuplicateCreate ==
    [][ \A p \in pending :
          ( /\ createCommit(p)
            /\ \E s \in students :
                  toLowerCase(s.email) = toLowerCase(p.body.email.v) )
          => /\ last'.status = 400
             /\ last'.message = "Email already exists"
             /\ students' = students ]_vars

\* a create whose email differs in case only from a stored one was refused
C2_Witness ==
    /\ last.op = "create"
    /\ last.status = 400
    /\ last.message = "Email already exists"
    /\ \E s \in students :
          /\ s.email # last.body.email.v
          /\ s.email = toLowerCase(last.body.email.v)

(***************************************************************************)
(* C3.  An update that sets a stored student's email to the email held by  *)
(* another stored student is answered 400 and leaves the store unchanged.  *)
(***************************************************************************)
C3_DuplicateUpdate400 ==
    [][ \A p \in pending :
          ( /\ updateCommit(p)
            /\ Stored(p.id)
            /\ p.doc.email # Absent
            /\ \E s \in students : s.id # p.id /\ s.email = p.doc.email.v )
          => /\ last'.status = 400
             /\ students' = students ]_vars

(***************************************************************************)
(* C4.  Every stored student satisfies the field constraints in every      *)
(* state, and an answered create or update whose body violates a           *)
(* constraint is answered 400 and stores nothing.                          *)
(***************************************************************************)
C4_StoredValid ==
    \A s \in students :
        /\ trim(s.name) = s.name
        /\ Len(s.name) >= 2 /\ Len(s.name) <= 50
        /\ s.age >= 16 /\ s.age <= 100
        /\ s.course \in CourseValues
        /\ s.email = toLowerCase(s.email)
        /\ s.grade \in GradeValues

C4_Rejected ==
    ( /\ last' # last
      /\ \/ last'.op = "create" /\ CreateViolations(last'.body) # {}
         \/ last'.op = "update" /\ UpdateViolations(last'.body) # {} )
    => /\ last'.status = 400
       /\ students' = students

C5_DeletedStaysGone ==
    \A n \in deleted : getResponse(students, Oid(n)) = StudentNotFound

(***************************************************************************)
(* C6.  When the insert of a create body is answered 201 with identifier   *)
(* i, no student was stored under i before, and a get of i returns 200     *)
(* with the body normalized: name and course trimmed, email in lower case, *)
(* grade "C" when omitted; and a stored record changes or goes only by an  *)
(* update or a delete of its identifier.                                   *)
(***************************************************************************)
C6_Normalized(body, i) ==
    [ id     |-> i,
      name   |-> trim(body.name.v),
      age    |-> castNumber(body.age).v,
      course |-> trim(body.course.v),
      email  |-> toLowerCase(body.email.v),
      grade  |-> IF body.grade = Absent THEN <<"C">> ELSE body.grade.v ]

C6_RoundTrip ==
    [][ /\ \A p \in pending :
              (createCommit(p) /\ last'.status = 201)
              => LET i == last'.data[1].id
                     r == getResponse(students', Oid(i))
                 IN  /\ ~Stored(i)
                     /\ r.status = 200
                     /\ r.data = << C6_Normalized(p.body, i) >>
                     /\ last'.data = r.data
        /\ \A s \in students :
              \/ s \in students'
              \/ deleteStudent(Oid(s.id))
              \/ \E p \in pending : p.id = s.id /\ updateCommit(p) ]_vars

\* a create that omitted the grade was answered 201 beside another student
C6_Witness ==
    /\ last.op = "create"
    /\ last.status = 201
    /\ last.body.grade = Absent
    /\ last.data[1] \in students
    /\ last.data[1].grade = <<"C">>
    /\ Cardinality(students) = 2

(***************************************************************************)
(* C7.  A get never changes the store and has exactly one outcome: 400     *)
(* "Invalid student ID" for a malformed identifier, 404 "Student not       *)
(* found" for a well-formed identifier of no stored student, 200 with the  *)
(* stored record otherwise.                                                *)
(***************************************************************************)
C7_GetClassifies ==
    [][ \A rawId \in PathIds :
          getStudentById(rawId)
          => /\ students' = students
             /\ IF ~WellFormed(rawId)
                THEN last'.status = 400 /\ last'.message = "Invalid student ID"
                ELSE IF ~Stored(rawId.v)
                THEN last'.status = 404 /\ last'.message = "Student not found"
                ELSE /\ last'.status = 200
                     /\ \E s \in students : s.id = rawId.v /\ last'.data = <<s>> ]_vars

\* a get was answered 400 while students are stored
C7_Witness ==
    /\ last.op = "get"
    /\ last.status = 400
    /\ last.message = "Invalid student ID"
    /\ Cardinality(students) = 2

(***************************************************************************)
(* C8.  A create whose body violates k >= 1 paths is answered 400 with     *)
(* exactly one error for each violated path, and nothing is stored or      *)
(* queued.                                                                 *)
(***************************************************************************)
C8_AllViolations ==
    [][ ( /\ last' # last
          /\ last'.op = "create"
          /\ CreateViolations(last'.body) # {} )
        => /\ last'.status = 400
           /\ Len(last'.errors) = Cardinality(CreateViolations(last'.body))
           /\ ErrorPaths(last'.errors) = CreateViolations(last'.body)
           /\ students' = students
           /\ pending' = pending ]_vars

\* a create that violates all five paths was answered with five errors
C8_Witness ==
    /\ last.op = "create"
    /\ last.status = 400
    /\ Len(last.errors) = 5
    /\ students = {}

(***************************************************************************)
(* C9.  As claimed: an update of a well-formed identifier of no stored     *)
(* student is answered 404 "Student not found" whatever its body.          *)
(***************************************************************************)
C9_LookupBeforeValidation ==
    [][ /\ \A rawId \in PathIds, body \in UpdateBodies :
              ( /\ WellFormed(rawId)
                /\ ~Stored(rawId.v)
                /\ updateReceive(1, rawId, body)
                /\ last' # last )
              => /\ last'.status = 404
                 /\ last'.message = "Student not found"
                 /\ students' = students
        /\ \A p \in pending :
              (updateCommit(p) /\ ~Stored(p.id))
              => /\ last'.status = 404
                 /\ last'.message = "Student not found"
                 /\ students' = students ]_vars

(***************************************************************************)
(* C9, amended.  An update of a well-formed identifier of no stored        *)
(* student leaves the store unchanged; it is answered 400 before any       *)
(* lookup when its body violates a constraint, and 404 "Student not        *)
(* found" by the lookup otherwise.                                         *)
(***************************************************************************)
C9_ValidationBeforeLookup ==
    [][ /\ \A rawId \in PathIds, body \in UpdateBodies :
              ( /\ WellFormed(rawId)
                /\ ~Stored(rawId.v)
                /\ updateReceive(1, rawId, body) )
              => /\ students' = students
                 /\ IF UpdateViolations(body) # {}
                    THEN last'.status = 400 /\ pending' = pending
                    ELSE last' = last /\ pending' # pending
        /\ \A p \in pending :
              (updateCommit(p) /\ ~Stored(p.id))
              => /\ last'.status = 404
                 /\ last'.message = "Student not found"
                 /\ students' = students ]_vars

\* with no student stored, an update to a course outside the enumeration
\* was answered 400 with the validation error
C9_Witness ==
    /\ students = {}
    /\ last.op = "update"
    /\ last.body.course = Str(Law)
    /\ last.status = 400
    /\ last.message = "Validation Error"

(***************************************************************************)
(* C10.  A get, update or delete of a well-formed identifier is never      *)
(* answered "Invalid student ID".                                          *)
(***************************************************************************)
C10_InvalidIdOnlyIfMalformed ==
    [][ /\ \A rawId \in PathIds :
              WellFormed(rawId)
              => /\ (getStudentById(rawId) \/ deleteStudent(rawId))
                        => last'.message # "Invalid student ID"
                 /\ \A body \in UpdateBodies :
                        (updateReceive(1, rawId, body) /\ last' # last)
                        => last'.message # "Invalid student ID"
        /\ \A p \in pending :
              updateCommit(p) => last'.message # "Invalid student ID" ]_vars

====
